---- MODULE Spec2Model ----
(***************************************************************************)
(* Model of numascope's live web server (webserver.go, the second,         *)
(* authoritative variant: lines 151-493).                                  *)
(*                                                                         *)
(* Tasks: the sampling task live() (task 0) and one monitor() goroutine    *)
(* per accepted websocket (tasks 1..NumConns).  Shared state: the          *)
(* connections slice (header + backing arrays), every Connection's mutex   *)
(* and stopped flag, the interval and discrete flags and the sensors'      *)
(* event enablement.  No lock protects the connections slice, so every     *)
(* read and write of it is a step of its own.                              *)
(***************************************************************************)
EXTENDS Integers, Sequences, FiniteSets, TLC

\* ---------------------------------------------------------------- bounds
NumConns == 2
\* what the environment may do in one run: a tick costs TickCost, a label
\* read on a tick LabelCost more, a control message MsgCost
MaxCost == 5
TickCost == 1
LabelCost == 2
MsgCost == 3
\* a "stop" or "start" message, which starts no loop, costs less
StopCost == 2
\* what the clients may send in a run without ticks: two messages
CtlCost == 6

\* ------------------------------------------------------ program constants
\* time.Millisecond expressed in the unit of timestamp (UnixNano / 1e3)
UsPerMs == 1000
\* the coalescing window (a flag of the program), in microseconds
coalescing == 2500
\* the interval flag's value at start, in milliseconds
InitInterval == 1
\* time.Now() at start, in microseconds: far beyond any coalescing window
StartTime == 5000

Live == 0
Conns == 1..NumConns
Tasks == 0..NumConns

Token == "463ba1974b06"
FirstMsgs == {Token, "bad", "readerr"}

\* the sensors that are present: name and ordered event descriptions
present == << [name |-> "s1", events |-> <<"a">>],
              [name |-> "s2", events |-> <<"b">>] >>
SensorIds == 1..Len(present)

\* what a client may put in the fields of a control message
UpdateMsgs == ({"a", "b", "all", "zz"} \X {"on", "off"}) \cup { <<"a", "x">> }
AvgValues == {"true", "false"}
IntervalValues == { <<"2">>, <<"a", "b", "c">> }

VARIABLES
  pc,            \* [Tasks -> position in live() / monitor()]
  ctx,           \* [Tasks -> which write or loop the task is in]
  it,            \* [Tasks -> the task's copy of a slice header and its index]
  cur,           \* [Tasks -> the connection the task is writing to (0: none)]
  msg,           \* [Tasks -> the message the task is writing]
  connections,   \* the global slice header [arr, len]
  heap,          \* the backing arrays ever allocated, by array id
  mutex,         \* [Conns -> BOOLEAN] Connection.mutex is held
  stopped,       \* [Conns -> BOOLEAN] Connection.stopped
  broken,        \* [Conns -> BOOLEAN] the peer is gone: reads and writes fail
  stalled,       \* [Conns -> BOOLEAN] the peer reads no more: writes block
  sent,          \* [Conns -> sequence of messages delivered to the socket]
  first,         \* [Conns -> the first message read, "none" before]
  interval,      \* *interval
  discrete,      \* *discrete
  enabled,       \* [sensor -> [event index -> BOOLEAN]]
  hw,            \* [sensor -> [mode, discards]] what Enable/Sample did to it
  now,           \* the clock, microseconds
  timestamp,     \* live()'s timestamp of the current tick
  lastTimestamp, \* live()'s lastTimestamp
  epochs,        \* live()'s coalescing buffer
  sampled,       \* history: the epochs sampled, in order
  flushed,       \* history: the batches passed to broadcastData, in order
  recvd,         \* [Conns -> the control messages read so far, in order]
  snapTo,        \* [Conns -> connections change() wrote to for the last one]
  visits,        \* [Tasks -> what the task's loop did so far: [conn, res]]
  prev,          \* the last update handled: [desc, val, enabled before it]
  panicked,      \* "no", or the panic that has aborted the process
  budget,        \* what the environment may still do
  calls          \* remove() called on its own: [target, n, after]

vars == << pc, ctx, it, cur, msg, connections, heap, mutex, stopped, broken,
           stalled, sent, first, interval, discrete, enabled, hw, now, timestamp,
           lastTimestamp, epochs, sampled, flushed, recvd, snapTo, visits, prev,
           panicked, budget, calls >>

liveVars == << now, timestamp, lastTimestamp, epochs, sampled, flushed >>
ctlVars == << interval, discrete, enabled, hw >>
regVars == << connections, heap >>
connVars == << stopped, broken, stalled, first >>
histVars == << recvd, snapTo, visits, prev >>

Running == panicked = "no"

\* ------------------------------------------------------------ the slice
NilSlice == [arr |-> 0, len |-> 0]
Cap(a) == IF a = 0 THEN 0 ELSE Len(heap[a])
Elem(a, i) == heap[a][i]
Members == { Elem(connections.arr, i) : i \in 1..connections.len }
\* runtime growslice for a small slice: one element, then doubling
NewCap(old) == IF old = 0 THEN 1 ELSE 2 * old
Header(h) == [arr |-> h.arr, len |-> h.len, i |-> 0]
\* the value given to a task's local variables once they are dead
NoHeader == Header(NilSlice)
NoMsg == << >>
NoPrev == [desc |-> "none", val |-> "none", enabled |-> << >>]

\* ------------------------------------------------------------- messages
SignonMsg == << "signon" >>
EnabledOf(s) ==
  LET f[k \in 0..Len(present[s].events)] ==
        IF k = 0 THEN << >>
        ELSE IF enabled[s][k] THEN Append(f[k-1], present[s].events[k])
             ELSE f[k-1]
  IN f[Len(present[s].events)]
ChangeMsg == << "enabled", interval, discrete, [s \in SensorIds |-> EnabledOf(s)] >>
LabelMsg(ts) == << "label", ts >>
DataMsg(eps) == << "data", eps >>

\* ----------------------------------------------------------------- Init
InitLocals ==
  /\ pc = [t \in Tasks |-> IF t = Live THEN "sleep" ELSE "new"]
  /\ ctx = [t \in Tasks |-> "none"]
  /\ it = [t \in Tasks |-> NoHeader]
  /\ cur = [t \in Tasks |-> 0]
  /\ msg = [t \in Tasks |-> NoMsg]
  /\ mutex = [c \in Conns |-> FALSE]
  /\ stopped = [c \in Conns |-> FALSE]
  /\ broken = [c \in Conns |-> FALSE]
  /\ stalled = [c \in Conns |-> FALSE]
  /\ sent = [c \in Conns |-> << >>]
  /\ first = [c \in Conns |-> "none"]
  /\ interval = InitInterval
  /\ discrete = FALSE
  /\ hw = [s \in SensorIds |-> [mode |-> "none", discards |-> 0]]
  /\ now = StartTime
  /\ timestamp = 0
  /\ lastTimestamp = 0
  /\ epochs = << >>
  /\ sampled = << >>
  /\ flushed = << >>
  /\ recvd = [c \in Conns |-> << >>]
  /\ snapTo = [c \in Conns |-> {}]
  /\ visits = [t \in Tasks |-> << >>]
  /\ prev = NoPrev
  /\ panicked = "no"

InitButRegistry ==
  /\ InitLocals
  /\ enabled = [s \in SensorIds |-> [k \in 1..Len(present[s].events) |-> FALSE]]
  /\ budget = MaxCost

NoCalls == [target |-> 0, n |-> 0, after |-> NilSlice]

Init ==
  /\ InitButRegistry
  /\ connections = NilSlice
  /\ heap = << >>
  /\ calls = NoCalls

\* ------------------------------------------------- pure helper functions
DigitVal == ("0" :> 0) @@ ("1" :> 1) @@ ("2" :> 2) @@ ("3" :> 3) @@ ("4" :> 4)
            @@ ("5" :> 5) @@ ("6" :> 6) @@ ("7" :> 7) @@ ("8" :> 8) @@ ("9" :> 9)

\* strconv.Atoi on a string given as its characters: [val, err]; val is 0
\* whenever err is set
Atoi(s) ==
  LET signed == Len(s) > 0 /\ s[1] \in {"-", "+"}
      body == IF signed THEN Tail(s) ELSE s
      ok == Len(body) > 0 /\ \A i \in 1..Len(body) : body[i] \in DOMAIN DigitVal
      v[k \in 0..Len(body)] == IF k = 0 THEN 0 ELSE 10 * v[k-1] + DigitVal[body[k]]
  IN IF ~ok THEN [val |-> 0, err |-> TRUE]
     ELSE [val |-> IF signed /\ s[1] = "-" THEN 0 - v[Len(body)] ELSE v[Len(body)],
           err |-> FALSE]

ModeOf(d) == IF d THEN "discrete" ELSE "averaged"

\* sensor.Enable(*discrete) followed by the discarded sensor.Sample()
EnableAndSample(h, s) ==
  [h EXCEPT ![s] = [mode |-> ModeOf(discrete), discards |-> @.discards + 1]]

\* state(desc, state) from sensor s on: [found, enabled, hw]
RECURSIVE StateFrom(_, _, _)
StateFrom(s, desc, st) ==
  IF s > Len(present) THEN [found |-> FALSE, enabled |-> enabled, hw |-> hw]
  ELSE IF desc = "all"
    THEN [found |-> TRUE,
          enabled |-> [enabled EXCEPT ![s] = [k \in DOMAIN enabled[s] |-> TRUE]],
          hw |-> EnableAndSample(hw, s)]
  ELSE LET hits == { k \in 1..Len(present[s].events) : present[s].events[k] = desc }
       IN IF hits # {}
          THEN LET k == CHOOSE x \in hits : \A y \in hits : x <= y
               IN [found |-> TRUE,
                   enabled |-> [enabled EXCEPT ![s][k] = st],
                   hw |-> EnableAndSample(hw, s)]
          ELSE StateFrom(s + 1, desc, st)

State(desc, st) == StateFrom(1, desc, st)

\* Activate(): re-activates every sensor under the new mode d
Activate(d) == [s \in SensorIds |-> [hw[s] EXCEPT !.mode = ModeOf(d)]]

\* time.Sleep(time.Duration(*interval) * time.Millisecond), in microseconds
SleepUs == IF interval > 0 THEN interval * UsPerMs ELSE 0

\* FlushNow without the test for an empty buffer
FlushNowIgnoringEmpty(ts) == ~(ts - lastTimestamp < coalescing)

\* the coalescer's test for "flush now" (the else branch of line 229)
FlushNow(ts) == ~(ts - lastTimestamp < coalescing \/ Len(epochs) = 0)

\* LockFree with a mutex of its own in every copy of the Connection
LockFreePerCopy(c) == TRUE

\* c.mutex.Lock() may proceed
LockFree(c) == ~mutex[c]

\* AuthOK without the comparison
AuthAny(m) == TRUE

\* the handshake's comparison with the token
AuthOK(m) == m = Token

\* -------------------------------------------------------- live(), task 0
\* NoViewers with the test left out: live() samples whoever is attached
NoViewersNever == FALSE

\* line 218: len(connections) == 0, the rest of the tick is skipped
NoViewers == connections.len = 0

\* lines 218-235: skip, or sample and then append to the buffer or start
\* broadcastData
SampleAndCoalesce(ts) ==
  IF NoViewers
  THEN /\ pc' = [pc EXCEPT ![Live] = "sleep"]
       /\ ctx' = [ctx EXCEPT ![Live] = "none"]
       /\ it' = [it EXCEPT ![Live] = NoHeader]
       /\ msg' = [msg EXCEPT ![Live] = NoMsg]
       /\ UNCHANGED << epochs, sampled, flushed >>
  ELSE /\ sampled' = Append(sampled, ts)
       /\ IF ~FlushNow(ts)
          THEN /\ epochs' = Append(epochs, ts)
               /\ pc' = [pc EXCEPT ![Live] = "sleep"]
               /\ ctx' = [ctx EXCEPT ![Live] = "none"]
               /\ it' = [it EXCEPT ![Live] = NoHeader]
               /\ msg' = [msg EXCEPT ![Live] = NoMsg]
               /\ UNCHANGED flushed
          ELSE /\ flushed' = Append(flushed, epochs)
               /\ pc' = [pc EXCEPT ![Live] = "iter"]
               /\ ctx' = [ctx EXCEPT ![Live] = "data"]
               /\ it' = [it EXCEPT ![Live] = Header(connections)]
               /\ msg' = [msg EXCEPT ![Live] = DataMsg(epochs)]
               /\ UNCHANGED epochs

\* one pass of the loop up to the first blocking point: sleep, read the
\* fifo, take the timestamp; with a label start broadcastLabel, without one
\* go on to sample
Tick ==
  /\ Running /\ pc[Live] = "sleep" /\ budget >= TickCost
  /\ now' = now + SleepUs
  /\ timestamp' = now'
  /\ \/ /\ budget >= TickCost + LabelCost
        /\ budget' = budget - TickCost - LabelCost
        /\ pc' = [pc EXCEPT ![Live] = "iter"]
        /\ ctx' = [ctx EXCEPT ![Live] = "label"]
        /\ it' = [it EXCEPT ![Live] = Header(connections)]
        /\ msg' = [msg EXCEPT ![Live] = LabelMsg(now')]
        /\ UNCHANGED << epochs, sampled, flushed >>
     \/ /\ budget' = budget - TickCost
        /\ SampleAndCoalesce(now')
  /\ UNCHANGED << cur, lastTimestamp, regVars, mutex, sent, connVars, ctlVars,
                  histVars, panicked, calls >>

\* broadcastLabel has returned: lines 217-235
LabelDone ==
  /\ Running /\ pc[Live] = "iter" /\ ctx[Live] = "label"
  /\ it[Live].i = it[Live].len
  /\ SampleAndCoalesce(timestamp)
  /\ visits' = [visits EXCEPT ![Live] = << >>]
  /\ UNCHANGED << cur, now, timestamp, lastTimestamp, regVars, mutex, sent, connVars,
                  ctlVars, recvd, snapTo, prev, panicked, budget, calls >>

\* broadcastData has returned: lines 233-234
DataDone ==
  /\ Running /\ pc[Live] = "iter" /\ ctx[Live] = "data"
  /\ it[Live].i = it[Live].len
  /\ lastTimestamp' = timestamp
  /\ epochs' = << >>
  /\ pc' = [pc EXCEPT ![Live] = "sleep"]
  /\ ctx' = [ctx EXCEPT ![Live] = "none"]
  /\ it' = [it EXCEPT ![Live] = NoHeader]
  /\ msg' = [msg EXCEPT ![Live] = NoMsg]
  /\ visits' = [visits EXCEPT ![Live] = << >>]
  /\ UNCHANGED << cur, now, timestamp, sampled, flushed, regVars, mutex, sent, connVars,
                  ctlVars, recvd, snapTo, prev, panicked, budget, calls >>

\* ------------------------------------- the range loops and WriteJSON
\* Skips with no loop looking at the stopped flag
SkipsNobody(kind, c) == FALSE

\* lines 295-297: broadcastData passes over a stopped connection; the loops
\* of broadcastLabel, toggle and the averaging handler have no such test
Skips(kind, c) == kind = "data" /\ stopped[c]

\* AfterWrite with the loop given up at the first write that fails
AfterWriteOrGiveUp(i, n, err) == IF err THEN n ELSE i + 1

\* lines 286-289, 300-303, 365-367: the error of a write is at most printed
\* and the loop goes on with the next element
AfterWrite(i, n, err) == i + 1

\* one iteration of "for _, c := range connections" in broadcastLabel,
\* broadcastData, toggle and the averaging handler: read the element; skip
\* a stopped connection (data only); change() builds its message here
IterNext(t) ==
  /\ Running /\ pc[t] = "iter" /\ ctx[t] \in {"label", "data", "change"}
  /\ it[t].i < it[t].len
  /\ LET c == Elem(it[t].arr, it[t].i + 1)
     IN IF Skips(ctx[t], c)
        THEN /\ it' = [it EXCEPT ![t].i = @ + 1]
             /\ visits' = [visits EXCEPT ![t] = Append(@, [conn |-> c, res |-> "skip"])]
             /\ UNCHANGED << pc, cur, msg >>
        ELSE /\ cur' = [cur EXCEPT ![t] = c]
             /\ msg' = [msg EXCEPT ![t] = IF ctx[t] = "change" THEN ChangeMsg ELSE @]
             /\ pc' = [pc EXCEPT ![t] = "lock"]
             /\ UNCHANGED << it, visits >>
  /\ UNCHANGED << ctx, liveVars, regVars, mutex, sent, connVars, ctlVars,
                  recvd, snapTo, prev, panicked, budget, calls >>

\* Connection.WriteJSON, line 244: c.mutex.Lock()
Lock(t) ==
  /\ Running /\ pc[t] = "lock"
  /\ LockFree(cur[t])
  /\ mutex' = [mutex EXCEPT ![cur[t]] = TRUE]
  /\ pc' = [pc EXCEPT ![t] = "write"]
  /\ UNCHANGED << ctx, it, cur, msg, liveVars, regVars, sent, connVars, ctlVars,
                  histVars, panicked, budget, calls >>

\* AfterSignon with the connection registered before change(c)
AfterSignonRegisterFirst == "append"

\* where a task goes on after signon has been written without error
AfterSignon == "hello"

\* Connection.WriteJSON, lines 245-248: the socket write ends, Unlock, and
\* the caller goes on
WriteDone(t) ==
  /\ Running /\ pc[t] = "write"
  /\ ~stalled[cur[t]] \/ broken[cur[t]]
  /\ LET c == cur[t]
         err == broken[c]
     IN /\ sent' = IF err THEN sent ELSE [sent EXCEPT ![c] = Append(@, msg[t])]
        /\ mutex' = [mutex EXCEPT ![c] = FALSE]
        /\ cur' = [cur EXCEPT ![t] = 0]
        /\ snapTo' = IF ctx[t] = "change" THEN [snapTo EXCEPT ![t] = @ \cup {c}]
                     ELSE snapTo
        /\ visits' = IF ctx[t] \in {"label", "data", "change"}
                     THEN [visits EXCEPT ![t] =
                             Append(@, [conn |-> c, res |-> IF err THEN "err" ELSE "ok"])]
                     ELSE visits
        /\ CASE ctx[t] \in {"label", "data", "change"} ->
                  /\ it' = [it EXCEPT ![t].i = AfterWrite(@, it[t].len, err)]
                  /\ pc' = [pc EXCEPT ![t] = "iter"]
                  /\ UNCHANGED << ctx, msg >>
             [] ctx[t] = "signon" ->
                  /\ pc' = [pc EXCEPT ![t] = IF err THEN "closed" ELSE AfterSignon]
                  /\ ctx' = [ctx EXCEPT ![t] = "none"]
                  /\ msg' = [msg EXCEPT ![t] = NoMsg]
                  /\ it' = it
             [] ctx[t] = "hello" ->
                  /\ pc' = [pc EXCEPT ![t] = "append"]
                  /\ ctx' = [ctx EXCEPT ![t] = "none"]
                  /\ msg' = [msg EXCEPT ![t] = NoMsg]
                  /\ it' = it
  /\ UNCHANGED << liveVars, regVars, connVars, ctlVars, recvd, prev, panicked,
                  budget, calls >>

\* ------------------------------------------- monitor(), tasks 1..NumConns
\* lines 371-401: upgrade, read the first message, compare it to the token.
\* Connections are numbered in the order they arrive.
Handshake(c) ==
  /\ Running /\ pc[c] = "new"
  /\ c = 1 \/ pc[c - 1] # "new"
  /\ \E m \in FirstMsgs :
       /\ first' = [first EXCEPT ![c] = m]
       /\ IF m # "readerr" /\ AuthOK(m)
          THEN /\ pc' = [pc EXCEPT ![c] = "lock"]
               /\ ctx' = [ctx EXCEPT ![c] = "signon"]
               /\ cur' = [cur EXCEPT ![c] = c]
               /\ msg' = [msg EXCEPT ![c] = SignonMsg]
          ELSE /\ pc' = [pc EXCEPT ![c] = "rejected"]
               /\ UNCHANGED << ctx, cur, msg >>
  /\ UNCHANGED << it, liveVars, regVars, mutex, sent, stopped, broken, stalled,
                  ctlVars, histVars, panicked, budget, calls >>

\* line 431, change(c): build the "enabled" message (lines 252-270)
Hello(c) ==
  /\ Running /\ pc[c] = "hello"
  /\ pc' = [pc EXCEPT ![c] = "lock"]
  /\ ctx' = [ctx EXCEPT ![c] = "hello"]
  /\ cur' = [cur EXCEPT ![c] = c]
  /\ msg' = [msg EXCEPT ![c] = ChangeMsg]
  /\ UNCHANGED << it, liveVars, regVars, mutex, sent, connVars, ctlVars,
                  histVars, panicked, budget, calls >>

\* line 432, append(connections, &c): the read of the slice header
AppendLoad(c) ==
  /\ Running /\ pc[c] = "append"
  /\ it' = [it EXCEPT ![c] = Header(connections)]
  /\ pc' = [pc EXCEPT ![c] = "append2"]
  /\ UNCHANGED << ctx, cur, msg, liveVars, regVars, mutex, sent, connVars,
                  ctlVars, histVars, panicked, budget, calls >>

\* line 432: append writes the element (in place, or into a grown copy) and
\* the new header is stored
AppendStore(c) ==
  /\ Running /\ pc[c] = "append2"
  /\ LET a == it[c].arr
         n == it[c].len
     IN IF n < Cap(a)
        THEN /\ heap' = [heap EXCEPT ![a][n + 1] = c]
             /\ connections' = [arr |-> a, len |-> n + 1]
        ELSE /\ heap' = Append(heap,
                          [k \in 1..NewCap(Cap(a)) |->
                             IF k <= n THEN heap[a][k] ELSE IF k = n + 1 THEN c ELSE 0])
             /\ connections' = [arr |-> Len(heap) + 1, len |-> n + 1]
  /\ pc' = [pc EXCEPT ![c] = "read"]
  /\ it' = [it EXCEPT ![c] = NoHeader]
  /\ UNCHANGED << ctx, cur, msg, liveVars, mutex, sent, connVars, ctlVars,
                  histVars, panicked, budget, calls >>

\* the peer goes away: from now on reads and writes on the socket fail.
\* Taken only where the socket is next used: a failure while monitor() is
\* between two uses of it shows no earlier than at the next use
Break(c) ==
  /\ Running /\ ~broken[c]
  /\ pc[c] \in {"lock", "read", "iter"} \/ (pc[c] = "write" /\ ctx[c] = "change")
  /\ broken' = [broken EXCEPT ![c] = TRUE]
  /\ UNCHANGED << pc, ctx, it, cur, msg, liveVars, regVars, mutex, sent, stopped,
                  stalled, first, ctlVars, histVars, panicked, budget, calls >>

\* the peer stops reading while live() is in a write to it: with no write
\* deadline set on the socket, c.socket.WriteJSON (line 245) blocks until
\* the peer reads again or goes away.  A stall is taken only where live()
\* is the writer: a stalled write of any task only withholds steps
Stall(c) ==
  /\ Running /\ ~stalled[c] /\ ~broken[c]
  /\ pc[Live] = "write" /\ cur[Live] = c
  /\ stalled' = [stalled EXCEPT ![c] = TRUE]
  /\ UNCHANGED << pc, ctx, it, cur, msg, liveVars, regVars, mutex, sent, stopped,
                  broken, first, ctlVars, histVars, panicked, budget, calls >>

\* a control message arrives on the read loop (line 436)
Recv(c, m, cost) ==
  /\ Running /\ pc[c] = "read" /\ ~broken[c] /\ budget >= cost
  /\ budget' = budget - cost
  /\ recvd' = [recvd EXCEPT ![c] = Append(@, m)]
  /\ snapTo' = [snapTo EXCEPT ![c] = {}]
  /\ UNCHANGED visits

\* the loop "for _, c := range connections { change(*c) }" starts
StartChangeLoop(c) ==
  /\ pc' = [pc EXCEPT ![c] = "iter"]
  /\ ctx' = [ctx EXCEPT ![c] = "change"]
  /\ it' = [it EXCEPT ![c] = Header(connections)]

\* case "update": toggle(msg["Event"], msg["State"]), lines 354-365
RecvUpdate(c) ==
  /\ \E m \in UpdateMsgs :
       LET desc == m[1]
           val == m[2]
           r == State(desc, val = "on")
       IN /\ Recv(c, << "update", desc, val >>, MsgCost)
          /\ IF val \notin {"on", "off"} \/ ~r.found
             THEN /\ panicked' = IF val \notin {"on", "off"} THEN "unexpected state"
                                 ELSE "event not found"
                  /\ UNCHANGED << pc, ctx, it, enabled, hw, prev >>
             ELSE /\ enabled' = r.enabled
                  /\ hw' = r.hw
                  /\ prev' = [desc |-> desc, val |-> val, enabled |-> enabled]
                  /\ StartChangeLoop(c)
                  /\ UNCHANGED panicked
  /\ UNCHANGED << calls, cur, msg, liveVars, regVars, mutex, sent, connVars, interval,
                  discrete >>

\* case "stop" / "start", lines 453-456
RecvStopStart(c) ==
  /\ \E op \in {"stop", "start"} :
       /\ Recv(c, << op >>, StopCost)
       /\ stopped' = [stopped EXCEPT ![c] = (op = "stop")]
  /\ UNCHANGED << calls, pc, ctx, it, cur, msg, liveVars, regVars, mutex, sent, broken,
                  stalled, first, ctlVars, prev, panicked >>

\* case "averaging", lines 457-463
RecvAveraging(c) ==
  /\ \E v \in AvgValues :
       /\ Recv(c, << "averaging", v >>, MsgCost)
       /\ discrete' = (v = "false")
       /\ hw' = Activate(v = "false")
  /\ StartChangeLoop(c)
  /\ UNCHANGED << calls, cur, msg, liveVars, regVars, mutex, sent, connVars, interval,
                  enabled, prev, panicked >>

\* case "interval", lines 464-468
RecvInterval(c) ==
  /\ \E v \in IntervalValues :
       /\ Recv(c, << "interval", v >>, MsgCost)
       /\ interval' = Atoi(v).val
  /\ UNCHANGED << calls, pc, ctx, it, cur, msg, liveVars, regVars, mutex, sent, connVars,
                  discrete, enabled, hw, prev, panicked >>

\* default: an unknown Op is printed and ignored, lines 469-470
RecvUnknown(c) ==
  /\ Recv(c, << "other" >>, MsgCost)
  /\ UNCHANGED << calls, pc, ctx, it, cur, msg, liveVars, regVars, mutex, sent, connVars,
                  ctlVars, prev, panicked >>

\* the change loop of toggle or of the averaging handler has ended
ChangeDone(c) ==
  /\ Running /\ pc[c] = "iter" /\ ctx[c] = "change"
  /\ it[c].i = it[c].len
  /\ pc' = [pc EXCEPT ![c] = "read"]
  /\ ctx' = [ctx EXCEPT ![c] = "none"]
  /\ it' = [it EXCEPT ![c] = NoHeader]
  /\ msg' = [msg EXCEPT ![c] = NoMsg]
  /\ visits' = [visits EXCEPT ![c] = << >>]
  /\ UNCHANGED << cur, liveVars, regVars, mutex, sent, connVars, ctlVars,
                  recvd, snapTo, prev, panicked, budget, calls >>

\* remove(), lines 308-309: the index of the first entry whose socket is c's
\* in the slice as it is now (0: none)
FindIndex(c) ==
  LET hits == { i \in 1..connections.len : Elem(connections.arr, i) = c }
  IN IF hits = {} THEN 0 ELSE CHOOSE x \in hits : \A y \in hits : x <= y

\* lines 310-311: connections[i] = connections[len-1] and the shrink
SwapWithLast(i) ==
  /\ heap' = [heap EXCEPT ![connections.arr][i] = heap[connections.arr][connections.len]]
  /\ connections' = [arr |-> connections.arr, len |-> connections.len - 1]

\* lines 438-442 and 308-309, 316: the read fails, remove() scans the slice
RemoveFind(c) ==
  /\ Running /\ pc[c] = "read" /\ broken[c]
  /\ IF FindIndex(c) = 0
     THEN /\ panicked' = "element not found"
          /\ UNCHANGED << pc, it >>
     ELSE /\ it' = [it EXCEPT ![c] = [arr |-> connections.arr,
                                      len |-> connections.len, i |-> FindIndex(c)]]
          /\ pc' = [pc EXCEPT ![c] = "remove2"]
          /\ UNCHANGED panicked
  /\ UNCHANGED << ctx, cur, msg, liveVars, regVars, mutex, sent, connVars, ctlVars,
                  histVars, budget, calls >>

\* lines 310-312: connections[i] = connections[len-1]; shrink; return; the
\* deferred socket.Close() runs.  An index beyond the slice as it is now
\* is a run-time panic
RemoveSwap(c) ==
  /\ Running /\ pc[c] = "remove2"
  /\ LET i == it[c].i
         a == connections.arr
         n == connections.len
     IN IF i > n \/ a = 0
        THEN /\ panicked' = "index out of range"
             /\ UNCHANGED << pc, it, regVars >>
        ELSE /\ SwapWithLast(i)
             /\ pc' = [pc EXCEPT ![c] = "closed"]
             /\ it' = [it EXCEPT ![c] = NoHeader]
             /\ UNCHANGED panicked
  /\ UNCHANGED << ctx, cur, msg, liveVars, mutex, sent, connVars, ctlVars,
                  histVars, budget, calls >>

\* ------------------------------------------------------- specification
Next ==
  \/ Tick
  \/ LabelDone
  \/ DataDone
  \/ \E t \in Tasks : IterNext(t)
  \/ \E t \in Tasks : Lock(t)
  \/ \E t \in Tasks : WriteDone(t)
  \/ \E c \in Conns : Handshake(c)
  \/ \E c \in Conns : Hello(c)
  \/ \E c \in Conns : AppendLoad(c)
  \/ \E c \in Conns : AppendStore(c)
  \/ \E c \in Conns : Break(c)
  \/ \E c \in Conns : Stall(c)
  \/ \E c \in Conns : RecvUpdate(c)
  \/ \E c \in Conns : RecvStopStart(c)
  \/ \E c \in Conns : RecvAveraging(c)
  \/ \E c \in Conns : RecvInterval(c)
  \/ \E c \in Conns : RecvUnknown(c)
  \/ \E c \in Conns : ChangeDone(c)
  \/ \E c \in Conns : RemoveFind(c)
  \/ \E c \in Conns : RemoveSwap(c)

Spec == Init /\ [][Next]_vars

\* ------------------------------------- the sessions between two ticks
\* live() sleeps for *interval milliseconds in every pass: here the
\* connection tasks run while it sleeps, from any enablement of the events
\* (each is reached by "update" messages); no socket fails and the clients
\* send up to two "update" messages.
Enablements ==
  { e \in [SensorIds -> UNION { [1..Len(present[s].events) -> BOOLEAN] : s \in SensorIds }] :
      \A s \in SensorIds : DOMAIN e[s] = 1..Len(present[s].events) }

InitCtl ==
  /\ InitLocals
  /\ enabled \in Enablements
  /\ budget = CtlCost
  /\ connections = NilSlice
  /\ heap = << >>
  /\ calls = NoCalls

NextCtl ==
  \/ \E t \in Tasks : IterNext(t)
  \/ \E t \in Tasks : Lock(t)
  \/ \E t \in Tasks : WriteDone(t)
  \/ \E c \in Conns : Handshake(c)
  \/ \E c \in Conns : Hello(c)
  \/ \E c \in Conns : AppendLoad(c)
  \/ \E c \in Conns : AppendStore(c)
  \/ \E c \in Conns : RecvUpdate(c)
  \/ \E c \in Conns : ChangeDone(c)

SpecCtl == InitCtl /\ [][NextCtl]_vars

\* ------------------------------------------- remove() called on its own
\* No path of monitor() calls remove() twice for one connection: here
\* remove() itself is run twice for one connection, on every small registry
\* of distinct connections.
CallIds == 1..(NumConns + 1)
Registries ==
  { r \in UNION { [1..n -> CallIds] : n \in 0..(NumConns + 1) } :
      \A i, j \in DOMAIN r : i # j => r[i] # r[j] }

InitRemove ==
  /\ InitButRegistry
  /\ \E r \in Registries, spare \in 0..1, c \in CallIds :
       /\ heap = << [k \in 1..(Len(r) + spare) |-> IF k <= Len(r) THEN r[k] ELSE 0] >>
       /\ connections = [arr |-> 1, len |-> Len(r)]
       /\ calls = [target |-> c, n |-> 0, after |-> NilSlice]

\* remove(c), lines 307-317, run from its first line to its return or panic
RemoveCall ==
  /\ Running /\ calls.n < 2
  /\ IF FindIndex(calls.target) = 0
     THEN /\ panicked' = "element not found"
          /\ UNCHANGED regVars
     ELSE /\ SwapWithLast(FindIndex(calls.target))
          /\ UNCHANGED panicked
  /\ calls' = [calls EXCEPT !.n = @ + 1,
                            !.after = IF calls.n = 0 THEN connections' ELSE @]
  /\ UNCHANGED << pc, ctx, it, cur, msg, mutex, sent, connVars, ctlVars, liveVars,
                  histVars, budget >>

SpecRemove == InitRemove /\ [][RemoveCall]_vars

\* ======================================================== the claims
RECURSIVE Flatten(_)
Flatten(batches) ==
  IF batches = << >> THEN << >> ELSE Head(batches) \o Flatten(Tail(batches))

Flushing == pc[Live] \in {"iter", "lock", "write"} /\ ctx[Live] = "data"
\* c is an entry of some backing array: it has been appended at some time
Appended(c) == \E a \in 1..Len(heap) : \E i \in 1..Len(heap[a]) : heap[a][i] = c
Writers(c) == { t \in Tasks : pc[t] = "write" /\ cur[t] = c }
Mutating(t) == pc[t] \in {"append2", "remove2"}
Iterating(t) ==
  /\ pc[t] \in {"iter", "lock", "write"}
  /\ ctx[t] \in {"label", "data", "change"}
  /\ it[t].i < it[t].len

\* C1: the batches passed to broadcastData are non-empty and, in order,
\* make up the sampled epochs: every sampled epoch is in a flushed batch
\* or still in the buffer, the epoch of the flushing tick included.
C1_NoEpochLost ==
  /\ \A i \in 1..Len(flushed) : flushed[i] # << >>
  /\ sampled = Flatten(flushed) \o (IF Flushing THEN << >> ELSE epochs)

\* C2: a flush happens only at a tick at least one coalescing window after
\* the last flush or, before any flush, after the first epoch was buffered.
C2_NoEarlyFlush ==
  Flushing =>
    timestamp - (IF Len(flushed) > 1 THEN lastTimestamp ELSE sampled[1]) >= coalescing

\* C3: no batch is flushed empty; lastTimestamp changes only when
\* broadcastData returns, in the step that empties the buffer, to the
\* timestamp of the flushing tick, and it never decreases.
C3_FlushDiscipline ==
  [][ /\ flushed' # flushed =>
           /\ epochs # << >>
           /\ flushed' = Append(flushed, epochs)
           /\ msg'[Live] = DataMsg(epochs)
      /\ lastTimestamp' # lastTimestamp =>
           /\ Flushing /\ it[Live].i = it[Live].len
           /\ lastTimestamp' = timestamp
           /\ lastTimestamp' >= lastTimestamp
           /\ epochs' = << >>
    ]_vars

\* C3 witness: a batch of two epochs has been flushed and the flush after
\* the first one was timed from lastTimestamp
C3_Witness ==
  /\ lastTimestamp > 0
  /\ \E i \in 1..Len(flushed) : Len(flushed[i]) >= 2

\* C4: what a connection is sent starts with one signon, then the
\* "enabled" message of its own task, and only then anything else; it is in
\* the registry only once its task is past both writes.
C4_SignonThenEnabledFirst ==
  \A c \in Conns :
    /\ sent[c] # << >> => sent[c][1] = SignonMsg /\ first[c] = Token
    /\ \A i \in 2..Len(sent[c]) : sent[c][i][1] # "signon"
    /\ Len(sent[c]) >= 2 => sent[c][2][1] = "enabled"
    /\ Appended(c) =>
         /\ pc[c] \notin {"new", "rejected", "hello", "append", "append2"}
         /\ ~(pc[c] \in {"lock", "write"} /\ ctx[c] \in {"signon", "hello"})

\* C4 witness: a connection has got signon, "enabled" and then a data batch
C4_Witness ==
  \E c \in Conns : \E i \in 3..Len(sent[c]) : sent[c][i][1] = "data"

\* C5: a connection whose first read fails or is not the token is closed
\* at once: nothing is ever sent to it, it is never in the registry, and
\* the step that rejects it changes neither the registry nor the control
\* state nor any connection's state.
C5_RejectedLeavesNoTrace ==
  /\ [](\A c \in Conns :
          first[c] \notin {"none", Token} =>
            /\ pc[c] = "rejected"
            /\ sent[c] = << >>
            /\ ~Appended(c) /\ ~mutex[c] /\ ~stopped[c])
  /\ [][ (\E c \in Conns : first[c] = "none" /\ first'[c] \notin {"none", Token}) =>
           UNCHANGED << connections, heap, interval, discrete, enabled, hw, sent,
                        mutex, stopped, panicked >> ]_vars

\* C5 witness: a connection was rejected while another one is registered
C5_Witness ==
  \E c, d \in Conns : first[c] = "bad" /\ pc[c] = "rejected" /\ d \in Members

\* C6: no task is in the middle of an append or a remove while another is
\* in the middle of a loop over the registry or of an append or remove; no
\* registration is lost and remove() finds every registered connection.
C6_RegistryExclusive ==
  /\ \A t, u \in Tasks : t # u => ~(Mutating(t) /\ (Mutating(u) \/ Iterating(u)))
  /\ \A c \in Conns : pc[c] = "read" => c \in Members
  /\ panicked \notin {"element not found", "index out of range"}

\* C7: at most one task at a time is inside the socket write of a connection.
C7_OneWriterPerSocket == \A c \in Conns : Cardinality(Writers(c)) <= 1

\* C7 witness: one task is inside the socket write of a connection while
\* another, holding a copy of the same Connection, waits for its mutex
C7_Witness ==
  \E c \in Conns : \E t, u \in Tasks :
    /\ t # u /\ u # c
    /\ pc[t] = "write" /\ cur[t] = c
    /\ pc[u] = "lock" /\ cur[u] = c /\ ctx[u] = "change"

\* the step in which connection task c is done with a control message that
\* changes the control state
HandledMutation(c) ==
  \/ pc[c] = "iter" /\ ctx[c] = "change" /\ pc'[c] = "read"
  \/ /\ Len(recvd'[c]) > Len(recvd[c])
     /\ recvd'[c][Len(recvd'[c])][1] = "interval"

\* C8: when a task is done with an update, averaging or interval message,
\* change() has written a snapshot for it to every connection of the
\* registry.
C8_RebroadcastToAll ==
  [][ \A c \in Conns : HandledMutation(c) => Members' \subseteq snapTo'[c] ]_vars

\* C9: an interval message whose Value is a decimal number sets the
\* interval to it; any other Value leaves the interval as it was, and
\* the process goes on.
C9_IntervalParsedOrKept ==
  [][ \A c \in Conns :
        Len(recvd'[c]) > Len(recvd[c]) /\ recvd'[c][Len(recvd'[c])][1] = "interval" =>
          LET v == recvd'[c][Len(recvd'[c])][2]
          IN /\ panicked' = "no"
             /\ IF Len(v) > 0 /\ \A i \in 1..Len(v) : v[i] \in DOMAIN DigitVal
                THEN interval' = Atoi(v).val
                ELSE interval' = interval
    ]_vars

\* C10: a second remove() of a connection that the first call removed
\* does not panic and leaves the registry as the first call left it.
C10_SecondRemoveIsNoOp ==
  calls.n = 2 =>
     /\ panicked = "no"
     /\ connections = calls.after

\* task t is in one of the loops over the registry
InLoop(t) == ctx[t] \in {"label", "data", "change"}
\* the step in which a write of t's loop returns
WriteReturns(t) == pc[t] = "write" /\ InLoop(t) /\ pc'[t] = "iter"
\* t's loop has passed the last element of its snapshot
AtLoopEnd(t) == pc[t] = "iter" /\ InLoop(t) /\ it[t].i = it[t].len
\* the step in which t's loop ends
LoopEnds(t) == AtLoopEnd(t) /\ ctx'[t] # ctx[t]

\* C11: a write that fails in a broadcast (label, data batch or change
\* snapshot) changes neither the registry nor the process' fate, and the
\* loop goes on with the next element: when the loop ends it has been at
\* every element of its snapshot of the registry, every write that did not
\* fail has delivered the message, and the only connections that miss it
\* are those whose socket fails.
C11_FailedWriteIsLocal ==
  [][ \A t \in Tasks :
        /\ WriteReturns(t) /\ broken[cur[t]] =>
              /\ UNCHANGED << connections, heap, sent, panicked >>
              /\ it'[t] = [it[t] EXCEPT !.i = @ + 1]
              /\ msg'[t] = msg[t]
        /\ WriteReturns(t) /\ ~broken[cur[t]] =>
              sent'[cur[t]] = Append(sent[cur[t]], msg[t])
        /\ LoopEnds(t) =>
              /\ Len(visits[t]) = it[t].len
              /\ \A j \in 1..Len(visits[t]) :
                    LET v == visits[t][j]
                    IN /\ v.res = "err" => broken[v.conn]
                       /\ v.res = "ok" /\ ctx[t] # "change" =>
                            \E k \in 1..Len(sent[v.conn]) : sent[v.conn][k] = msg[t]
    ]_vars

\* C11 witness: a loop over two connections has ended; its first write
\* failed, the second one delivered, and the connection of the failed
\* write is still in the registry
C11_Witness ==
  \E t \in Tasks :
    /\ AtLoopEnd(t) /\ Len(visits[t]) = 2
    /\ visits[t][1].res = "err" /\ visits[t][2].res = "ok"
    /\ visits[t][1].conn # visits[t][2].conn
    /\ visits[t][1].conn \in Members

\* the connections live()'s loop has still to pass, as its snapshot shows
\* them now
Behind == { Elem(it[Live].arr, j) : j \in (it[Live].i + 2)..it[Live].len }

\* C12: live() is never held in a write to a connection that does not take
\* it while another registered connection, not stopped and taking what it
\* is sent, still waits for the same data batch; the batch waits and, with
\* live() not back at its sleep, so does the next tick.
C12_SlowWriteDelaysNobody ==
  \A a \in Conns :
    ~ /\ Running /\ pc[Live] = "write" /\ ctx[Live] = "data" /\ cur[Live] = a
      /\ stalled[a] /\ ~broken[a]
      /\ \E b \in (Behind \cap Members) \ {a} :
            ~stopped[b] /\ ~broken[b] /\ ~stalled[b]

\* the step in which connection task c reads a control message
Reads(c) == Len(recvd'[c]) > Len(recvd[c])
\* the message read in that step
Read(c) == recvd'[c][Len(recvd'[c])]
\* the event descriptions of the sensors that are present
EventNames == UNION { { present[s].events[k] : k \in 1..Len(present[s].events) } : s \in SensorIds }

\* C13: an "update" message that names an event no sensor has, with a
\* state of "on" or "off", does not abort the process and changes neither
\* the registry nor the event enablement nor the control state; the task
\* that read it stays in its read loop.
C13_UnknownEventFailsRequestOnly ==
  [][ \A c \in Conns :
        ( /\ Reads(c) /\ Read(c)[1] = "update"
          /\ Read(c)[2] \notin EventNames \cup {"all"}
          /\ Read(c)[3] \in {"on", "off"} ) =>
            /\ panicked' = "no"
            /\ pc'[c] = "read"
            /\ UNCHANGED << connections, heap, interval, discrete, enabled, hw >>
    ]_vars

\* C14: an "update" message for "all" leaves every event of every present
\* sensor enabled, and every present sensor has had Enable(*discrete)
\* applied and one more discarded Sample taken.
C14_AllEnablesEverySensor ==
  [][ \A c \in Conns :
        ( /\ Reads(c) /\ Read(c)[1] = "update" /\ Read(c)[2] = "all"
          /\ Read(c)[3] \in {"on", "off"} ) =>
            \A s \in SensorIds :
              /\ \A k \in 1..Len(present[s].events) : enabled'[s][k]
              /\ hw'[s] = [mode |-> ModeOf(discrete), discards |-> hw[s].discards + 1]
    ]_vars

\* c's task is past its append (line 432) and has not returned from
\* remove(): it reads, handles a message or removes
Registered(c) ==
  \/ pc[c] \in {"read", "remove2"}
  \/ pc[c] \in {"iter", "lock", "write"} /\ ctx[c] = "change"
\* the step in which a message is delivered to c, and the message
Delivers(c) == Len(sent'[c]) > Len(sent[c])
Delivered(c) == sent'[c][Len(sent'[c])]
\* the step in which t's loop reads the next element of its snapshot
ReadsElement(t) ==
  /\ pc[t] = "iter" /\ InLoop(t) /\ it[t].i < it[t].len
  /\ pc'[t] # pc[t] \/ it'[t] # it[t]
NextElement(t) == Elem(it[t].arr, it[t].i + 1)

\* C15: broadcastData passes over a connection whose stopped flag it reads
\* as true and writes to the others; the loops of labels and of "enabled"
\* snapshots write to every element whatever its flag; what a loop
\* delivers goes to a registered connection, a data batch from live()'s
\* data loop only; a "stop" or "start" message sets the sender's flag and
\* changes nothing else.
C15_StopPausesDataOnly ==
  [][ /\ \A t \in Tasks :
           ReadsElement(t) =>
             IF ctx[t] = "data" /\ stopped[NextElement(t)]
             THEN /\ pc'[t] = "iter" /\ it'[t].i = it[t].i + 1
                  /\ sent' = sent
             ELSE pc'[t] = "lock" /\ cur'[t] = NextElement(t)
      /\ \A t \in Tasks :
           LoopEnds(t) /\ ctx[t] # "data" =>
             \A j \in 1..Len(visits[t]) : visits[t][j].res # "skip"
      /\ \A c \in Conns :
           Delivers(c) /\ Delivered(c)[1] = "data" =>
             pc[Live] = "write" /\ ctx[Live] = "data" /\ cur[Live] = c
      /\ \A c \in Conns :
           Delivers(c) /\ (\E t \in Tasks : WriteReturns(t) /\ cur[t] = c) =>
             Registered(c)
      /\ \A c \in Conns :
           Reads(c) /\ Read(c)[1] \in {"stop", "start"} =>
             /\ stopped' = [stopped EXCEPT ![c] = (Read(c)[1] = "stop")]
             /\ UNCHANGED << connections, heap, interval, discrete, enabled, hw,
                             sent, pc, panicked >>
    ]_vars

\* C15 witness: a data loop has ended that passed over a connection which
\* had sent "stop" and delivered the batch to the other one
C15_Witness ==
  /\ AtLoopEnd(Live) /\ ctx[Live] = "data"
  /\ \E j, k \in 1..Len(visits[Live]) :
        /\ visits[Live][j].res = "skip" /\ stopped[visits[Live][j].conn]
        /\ visits[Live][k].res = "ok"

\* a connection that had sent "stop" has been delivered a label
LabelToStopped ==
  \E c \in Conns :
    /\ stopped[c] /\ recvd[c] = << << "stop" >> >>
    /\ sent[c] # << >> /\ sent[c][Len(sent[c])][1] = "label"

\* the step in which live() is at line 218 of a tick: at the tick itself
\* without a label, after broadcastLabel with one
AtLine218 ==
  \/ pc[Live] = "sleep" /\ now' # now /\ ctx'[Live] # "label"
  \/ AtLoopEnd(Live) /\ ctx[Live] = "label" /\ ctx'[Live] # "label"

\* C16: a tick that finds the registry empty at line 218 samples nothing,
\* appends no epoch, writes to no connection and leaves live() at its
\* sleep; as long as no connection has been registered nothing has been
\* sampled or buffered and no label or data batch has been delivered.
C16_NoViewersNoWork ==
  /\ [][ AtLine218 /\ connections.len = 0 =>
            /\ UNCHANGED << sampled, epochs, flushed, sent, hw >>
            /\ pc'[Live] = "sleep" ]_vars
  /\ [](heap = << >> =>
            /\ sampled = << >> /\ epochs = << >> /\ flushed = << >>
            /\ \A c \in Conns : \A i \in 1..Len(sent[c]) :
                  sent[c][i][1] \in {"signon", "enabled"})

\* C16 witness: live() has taken a tick, with a label, and is back at its
\* sleep with nothing sampled: it found the registry empty; a connection
\* has been in the registry and is out of it again
C16_Witness ==
  /\ pc[Live] = "sleep" /\ timestamp > 0 /\ budget <= MaxCost - TickCost - LabelCost
  /\ connections.len = 0 /\ heap # << >>
  /\ sampled = << >>

\* the step in which c reads {Op: "update", Event: e, State: "on"} for an
\* existing event e, the last update handled before it having been
\* {Op: "update", Event: e, State: "off"}
SecondOfOffOn(c) ==
  /\ Reads(c) /\ Read(c)[1] = "update"
  /\ Read(c)[2] \in EventNames /\ Read(c)[3] = "on"
  /\ prev.desc = Read(c)[2] /\ prev.val = "off"
\* the step in which c's task is done with an update
ToggleDone(c) ==
  /\ pc[c] = "iter" /\ ctx[c] = "change" /\ pc'[c] = "read"
  /\ recvd[c][Len(recvd[c])][1] = "update"

\* C17: the "on" of an "off" and "on" for one existing event leaves every
\* event enabled or not as it was before the "off"; when a task is done
\* with an update, every connection of the registry whose socket works
\* has been written a snapshot by it and has been delivered an "enabled"
\* message that shows the events as they are enabled now.
C17_ToggleRoundTrip ==
  [][ \A c \in Conns :
        /\ SecondOfOffOn(c) => enabled' = prev.enabled
        /\ ToggleDone(c) =>
              \A d \in Members : ~broken[d] =>
                /\ d \in snapTo[c]
                /\ \E i \in 1..Len(sent[d]) :
                      /\ sent[d][i][1] = "enabled"
                      /\ sent[d][i][4] = [s \in SensorIds |-> EnabledOf(s)]
    ]_vars

\* how often d is in the registry
Occurs(d) == Cardinality({ i \in 1..connections.len : Elem(connections.arr, i) = d })
\* a step of c's task after the read of a registered c has failed: the
\* scan of remove(), and its swap and the return with the deferred Close
RemoveStep(c) ==
  /\ pc[c] \in {"read", "remove2"} /\ broken[c] /\ Registered(c)
  /\ \/ pc'[c] # pc[c]
     \/ /\ pc[c] = "read" /\ FindIndex(c) = 0
        /\ Running /\ panicked' = "element not found"
     \/ /\ pc[c] = "remove2" /\ it[c].i > connections.len
        /\ Running /\ panicked' = "index out of range"

\* C18: the task whose read of a registered connection fails ends that
\* session only: the process goes on, when remove() returns the registry
\* is what it was less that connection, which is closed, every other
\* connection is in it as often as before and at most once, and no
\* stopped flag and nothing of the control state changes.
C18_ReadErrorEndsOneSession ==
  [][ \A c \in Conns :
        RemoveStep(c) =>
          /\ panicked' = "no"
          /\ UNCHANGED << stopped, interval, discrete, enabled, hw >>
          /\ pc[c] = "read" => pc'[c] = "remove2" /\ UNCHANGED << connections, heap >>
          /\ pc[c] = "remove2" =>
                /\ pc'[c] = "closed"
                /\ Members' = Members \ {c}
                /\ \A d \in Conns \ {c} : Occurs(d)' = Occurs(d) /\ Occurs(d)' <= 1
    ]_vars

\* how often task t's loop has written, or tried to write, to c
Writes(t, c) ==
  Cardinality({ j \in 1..Len(visits[t]) :
                  visits[t][j].conn = c /\ visits[t][j].res # "skip" })

\* C19: in one call of broadcastLabel or broadcastData no connection is
\* written to more than once.
C19_OneWritePerBroadcast ==
  ctx[Live] \in {"label", "data"} => \A c \in Conns : Writes(Live, c) <= 1

\* the last "enabled" message delivered to c
LastEnabled(c) ==
  LET hits == { i \in 1..Len(sent[c]) : sent[c][i][1] = "enabled" }
  IN sent[c][CHOOSE i \in hits : \A j \in hits : j <= i]
\* no task is working: live() sleeps and every connection task is at its
\* read, before its handshake or gone
Quiet ==
  /\ Running /\ pc[Live] = "sleep"
  /\ \A c \in Conns : pc[c] \in {"new", "rejected", "closed", "read"}

\* C20: when no task is working, every connection of the registry whose
\* socket works has as its last "enabled" message one that shows the
\* discrete mode and the enabled events as they are now.
C20_SnapshotsAreCurrent ==
  Quiet =>
    \A c \in Members : ~broken[c] /\ pc[c] = "read" =>
      /\ LastEnabled(c)[3] = discrete
      /\ LastEnabled(c)[4] = [s \in SensorIds |-> EnabledOf(s)]

====
